---- MODULE Spec2Model ----
(***************************************************************************)
(* Model of the hash_db storage engine, second generation (storagev2):     *)
(* Page (page.rs), PageManager (page_manager.rs) and the server's          *)
(* shutdown path (serverv2/server.rs).  The disk, the LRU-K replacer and   *)
(* the log entry codec are not part of the sources at hand; they are       *)
(* modelled from the specification document.                               *)
(***************************************************************************)
EXTENDS Integers, Sequences, FiniteSets, TLC

\* ---------------------------------------------------------------- bounds
READ_SIZE == 2          \* const generic READ_SIZE of PageManager
PAGE_SIZE == 54         \* const generic PAGE_SIZE, scaled down
MaxId == 3              \* largest page id the allocator hands out
MaxTs == 3              \* largest logical timestamp of the replacer
MaxRuns == 2            \* number of processes run over the same file
MaxOverrun == 2         \* how far len may run past PAGE_SIZE before writes stop
MaxWrites == 1          \* entries written per scenario
MaxUnderflow == 1       \* unpins of one page below pins = 0
NumConns == 2           \* client connections of the server
MaxPuts == 2            \* PUT requests the server receives
MaxSize == 2            \* largest key_s / value_s and key length given to Entry::new

\* ------------------------------------------------------------- constants
K == 2
I32Max == 2147483647

\* AtomicU32 held as its 32-bit pattern read in two's complement: the values
\* 0 .. 2^31-1 are themselves and 2^32-1 (0xFFFFFFFF) is -1
fetch_add(p) == IF p = I32Max THEN (0 - I32Max) - 1 ELSE p + 1
fetch_sub(p) == IF p = (0 - I32Max) - 1 THEN I32Max ELSE p - 1
HEADER == 25

NoEntry == -2           \* page_table.get(id) = None
Write == -1             \* PageIndex::Write ; PageIndex::Read(i) is i
NoSlot == -1            \* Option<usize>::None

Slots == 0 .. (READ_SIZE - 1)
PageIds == 0 .. MaxId

VARIABLES page_table, current, read, free, next_id, replacer, disk,
          status, run, ret, written, sig, conn, acked, flushes, codec

pmvars == <<page_table, current, read, free, next_id, replacer, disk>>
srvvars == <<sig, conn, acked, flushes, codec>>
vars == <<page_table, current, read, free, next_id, replacer, disk,
          status, run, ret, written, sig, conn, acked, flushes, codec>>

Conns == 1 .. NumConns
NoRes == [page |-> 0, offset |-> 0]

\* ------------------------------------------------------------ log entries
EntryA == [t |-> 0, time |-> 1, key |-> <<97>>, value |-> <<120, 121>>]
EntryB == [t |-> 1, time |-> 258, key |-> <<98>>, value |-> << >>]
Entries == {EntryA, EntryB}

\* put_u64 / to_be_bytes: w bytes, most significant first
RECURSIVE BE(_, _)
BE(n, w) == IF w = 0 THEN << >> ELSE Append(BE(n \div 256, w - 1), n % 256)

U64BE(n) == BE(n, 8)

\* get_u64; a value of 2^22 or more is held as 2^22 or more (it is only
\* ever compared with lengths of at most PAGE_SIZE)
RECURSIVE FromBE(_)
FromBE(s) == IF s = << >> THEN 0
             ELSE LET hi == FromBE(SubSeq(s, 1, Len(s) - 1))
                  IN  IF hi >= 4194304 THEN hi ELSE 256 * hi + s[Len(s)]

EntryLen(e) == HEADER + Len(e.key) + Len(e.value)

as_bytes(e) == <<e.t>> \o U64BE(e.time) \o U64BE(Len(e.key))
               \o U64BE(Len(e.value)) \o e.key \o e.value

\* ------------------------------------------------------------------ Page
Zeroed == [i \in 1..PAGE_SIZE |-> 0]

PageNew(id) == [id |-> id, data |-> Zeroed, pins |-> 0, len |-> 0]

from_bytes(id, data, len) == [id |-> id, data |-> data, pins |-> 0, len |-> len]

NoPage == [id |-> -1, data |-> << >>, pins |-> 0, len |-> 0]

pin(p) == [p EXCEPT !.pins = fetch_add(@)]

put_bytes(dst, src, o, l) ==
    [i \in 1..Len(dst) |-> IF i > o /\ i <= o + l THEN src[i - o] ELSE dst[i]]

\* write_entry: the page afterwards and the result
write_entry(p, e) ==
    LET len == EntryLen(e)
        offset == p.len
        bumped == [p EXCEPT !.len = offset + len]
    IN  IF offset + len > PAGE_SIZE
        THEN [page |-> bumped, tag |-> "NotEnoughSpace", val |-> 0]
        ELSE [page |-> [bumped EXCEPT !.data = put_bytes(p.data, as_bytes(e), offset, len)],
              tag |-> "Ok", val |-> offset]

Panic == [t |-> -1, time |-> 0, key |-> << >>, value |-> << >>]

\* read_entry taking the value from the start of the payload, not after the key
read_entry_NoKeySkip(p, offset) ==
    LET src == SubSeq(p.data, offset + 1, Len(p.data))
        key_len == FromBE(SubSeq(src, 10, 17))
        value_len == FromBE(SubSeq(src, 18, 25))
        rm == SubSeq(src, 26, Len(src))
    IN  [t |-> src[1], time |-> FromBE(SubSeq(src, 2, 9)),
         key |-> SubSeq(rm, 1, key_len), value |-> SubSeq(rm, 1, value_len)]

\* read_entry: the Entry decoded at offset, Panic where a slice or a get_
\* runs past the buffer
read_entry(p, offset) ==
    IF offset > Len(p.data) THEN Panic
    ELSE LET src == SubSeq(p.data, offset + 1, Len(p.data)) IN
         IF Len(src) < HEADER THEN Panic
         ELSE LET t == src[1]
                  time == FromBE(SubSeq(src, 2, 9))
                  key_len == FromBE(SubSeq(src, 10, 17))
                  value_len == FromBE(SubSeq(src, 18, 25))
                  rm == SubSeq(src, 26, Len(src))
              IN  IF key_len > Len(rm) \/ key_len + value_len > Len(rm) THEN Panic
                  ELSE [t |-> t, time |-> time,
                        key |-> SubSeq(rm, 1, key_len),
                        value |-> SubSeq(rm, key_len + 1, key_len + value_len)]

\* ------------------------------------------------------------------ Disk
RECURSIVE ScanLen(_, _)
ScanLen(data, pos) ==
    IF pos + HEADER > Len(data) THEN pos
    ELSE LET t == data[pos + 1]
             key_len == FromBE(SubSeq(data, pos + 10, pos + 17))
             value_len == FromBE(SubSeq(data, pos + 18, pos + 25))
             nxt == pos + HEADER + key_len + value_len
         IN  IF (t = 0 /\ key_len = 0) \/ nxt > Len(data) THEN pos
             ELSE ScanLen(data, nxt)

write_page(d, p) == [d EXCEPT ![p.id] = p.data]

read_page(d, id) == from_bytes(id, d[id], ScanLen(d[id], 0))

\* ---------------------------------------------------------- LRU-K replacer
ReplacerNew == [history |-> [i \in Slots |-> << >>],
                evictable |-> [i \in Slots |-> FALSE],
                ts |-> 0]

record_access(r, i) ==
    LET h == Append(r.history[i], r.ts)
        kept == IF Len(h) > K THEN SubSeq(h, Len(h) - K + 1, Len(h)) ELSE h
    IN  [r EXCEPT !.history[i] = kept, !.ts = @ + 1]

set_evictable(r, i, b) == [r EXCEPT !.evictable[i] = b]

\* K-distance; Infinite for fewer than K accesses
Infinite(r, i) == Len(r.history[i]) < K
Oldest(r, i) == IF r.history[i] = << >> THEN -1 ELSE r.history[i][1]
KDist(r, i) == r.ts - r.history[i][1]

\* i is a better victim than j
Before(r, i, j) ==
    IF Infinite(r, i) /\ Infinite(r, j)
    THEN Oldest(r, i) < Oldest(r, j) \/ (Oldest(r, i) = Oldest(r, j) /\ i < j)
    ELSE IF Infinite(r, i) THEN TRUE
    ELSE IF Infinite(r, j) THEN FALSE
    ELSE KDist(r, i) > KDist(r, j) \/ (KDist(r, i) = KDist(r, j) /\ i < j)

evict(r) ==
    LET cand == {i \in Slots : r.evictable[i]} IN
    IF cand = {} THEN [slot |-> NoSlot, r |-> r]
    ELSE LET v == CHOOSE i \in cand : \A j \in cand \ {i} : Before(r, i, j)
         IN  [slot |-> v,
              r |-> [r EXCEPT !.history[v] = << >>, !.evictable[v] = FALSE]]

\* ------------------------------------------------------- entry.rs codec
\* Entry::new stores its arguments as given; pos is left out
EntryNew(delete, time, key_s, value_s, key, value) ==
    [delete |-> delete, time |-> time, key_s |-> key_s, value_s |-> value_s,
     key |-> key, value |-> value]

NoneEntry == EntryNew(FALSE, 0, 0, 0, << >>, << >>)

\* Entry::write: the bytes handed to the writer
EntryWrite(e) ==
    <<IF e.delete THEN 1 ELSE 0>> \o BE(e.time, 8) \o BE(e.key_s, 8)
        \o BE(e.value_s, 8) \o e.key \o e.value

\* Entry::read from the start of the bytes: Some(entry), None or a panic
EntryRead(bytes) ==
    LET n == Len(bytes)
        none == [tag |-> "None", entry |-> NoneEntry]
    IN  IF n < 1 THEN none
        ELSE IF bytes[1] \notin {0, 1} THEN [tag |-> "panic", entry |-> NoneEntry]
        ELSE IF n < 9 \/ n < 17 \/ n < 25 THEN none
        ELSE LET time == FromBE(SubSeq(bytes, 2, 9))
                 key_s == FromBE(SubSeq(bytes, 10, 17))
                 value_s == FromBE(SubSeq(bytes, 18, 25))
             IN  IF n < 25 + key_s THEN none
                 ELSE IF n < 25 + key_s + value_s THEN none
                 ELSE [tag |-> "Some",
                       entry |-> EntryNew(bytes[1] = 1, time, key_s, value_s,
                                          SubSeq(bytes, 26, 25 + key_s),
                                          SubSeq(bytes, 26 + key_s, 25 + key_s + value_s))]

Keys == {<<97>>, <<97, 98>>}
Values == {<< >>, <<120>>}
Times == {1, 258}
BadTags == {2, 255}

CodecInit == [stage |-> "none", entry |-> NoneEntry, file |-> << >>,
              damaged |-> FALSE, got |-> [tag |-> "None", entry |-> NoneEntry]]

othervars == <<page_table, current, read, free, next_id, replacer, disk,
               status, run, ret, written, sig, conn, acked, flushes>>

\* a caller builds an entry
CodecNew(delete, time, key_s, value_s, key, value) ==
    /\ codec.stage = "none"
    /\ codec' = [codec EXCEPT !.stage = "built",
                              !.entry = EntryNew(delete, time, key_s, value_s, key, value)]
    /\ UNCHANGED othervars

\* entry.write(file)
CodecWrite ==
    /\ codec.stage = "built"
    /\ codec' = [codec EXCEPT !.stage = "written", !.file = EntryWrite(codec.entry)]
    /\ UNCHANGED othervars

\* the file on disk holds another tag byte
CodecBadTag(b) ==
    /\ codec.stage = "written" /\ ~codec.damaged
    /\ codec' = [codec EXCEPT !.damaged = TRUE, !.file = [@ EXCEPT ![1] = b]]
    /\ UNCHANGED othervars

\* the file on disk ends early
CodecTruncate(n) ==
    /\ codec.stage = "written" /\ ~codec.damaged /\ n < Len(codec.file)
    /\ codec' = [codec EXCEPT !.damaged = TRUE, !.file = SubSeq(@, 1, n)]
    /\ UNCHANGED othervars

\* Entry::read(file)
CodecRead ==
    /\ codec.stage = "written"
    /\ codec' = [codec EXCEPT !.stage = "read", !.got = EntryRead(codec.file)]
    /\ UNCHANGED othervars

NextCodec ==
    \/ \E delete \in BOOLEAN, time \in Times, key_s \in 0..MaxSize,
          value_s \in 0..MaxSize, key \in Keys, value \in Values :
          CodecNew(delete, time, key_s, value_s, key, value)
    \/ CodecWrite
    \/ \E b \in BadTags : CodecBadTag(b)
    \/ \E n \in 0 .. (HEADER + 2 * MaxSize) : CodecTruncate(n)
    \/ CodecRead

\* ------------------------------------------------------------ PageManager
FreeInit == [k \in 1..READ_SIZE |-> READ_SIZE - k]

\* the slot choice without the replacer: a full pool never yields a slot
ChooseSlot_NoEvict ==
    IF free # << >>
    THEN [i |-> free[Len(free)], free |-> SubSeq(free, 1, Len(free) - 1),
          replacer |-> replacer, evicted |-> FALSE]
    ELSE [i |-> NoSlot, free |-> free, replacer |-> replacer, evicted |-> TRUE]

\* the slot choice reading the top of the free stack without popping it
ChooseSlot_NoPop ==
    IF free # << >>
    THEN [i |-> free[Len(free)], free |-> free,
          replacer |-> replacer, evicted |-> FALSE]
    ELSE LET ev == evict(replacer)
         IN  [i |-> ev.slot, free |-> free, replacer |-> ev.r, evicted |-> TRUE]

\* if let Some(i) = self.free.pop() { i } else { self.replacer.evict() }
ChooseSlot ==
    IF free # << >>
    THEN [i |-> free[Len(free)], free |-> SubSeq(free, 1, Len(free) - 1),
          replacer |-> replacer, evicted |-> FALSE]
    ELSE LET ev == evict(replacer)
         IN  [i |-> ev.slot, free |-> free, replacer |-> ev.r, evicted |-> TRUE]

Ret(op, arg, tag, val) == [op |-> op, arg |-> arg, tag |-> tag, val |-> val]

Init ==
    /\ codec = CodecInit
    /\ page_table = [id \in PageIds |-> IF id = 0 THEN Write ELSE NoEntry]
    /\ current = PageNew(0)
    /\ read = [i \in Slots |-> NoPage]
    /\ free = FreeInit
    /\ next_id = 1
    /\ replacer = ReplacerNew
    /\ disk = [id \in PageIds |-> Zeroed]
    /\ status = "running"
    /\ run = 1
    /\ ret = Ret("new", 0, "unit", 0)
    /\ written = {}
    /\ sig = "wait"
    /\ conn = [c \in Conns |-> [pc |-> "read", msg |-> EntryA, res |-> NoRes]]
    /\ acked = {}
    /\ flushes = 0

\* replace_page that forgets to write the old page to disk
replace_page_NoFlush ==
    /\ UNCHANGED <<srvvars, codec>>
    /\ status = "running"
    /\ next_id <= MaxId
    /\ next_id' = next_id + 1
    /\ current' = PageNew(next_id)
    /\ page_table' = [page_table EXCEPT ![current.id] = NoEntry, ![next_id] = Write]
    /\ ret' = Ret("replace_page", 0, "Ok", 0)
    /\ UNCHANGED <<disk, read, free, replacer, status, run, written>>

\* replace_page leaving the old current id in page_table
replace_page_KeepOld ==
    /\ UNCHANGED <<srvvars, codec>>
    /\ status = "running"
    /\ next_id <= MaxId
    /\ disk' = write_page(disk, current)
    /\ next_id' = next_id + 1
    /\ current' = PageNew(next_id)
    /\ page_table' = [page_table EXCEPT ![next_id] = Write]
    /\ ret' = Ret("replace_page", 0, "Ok", 0)
    /\ UNCHANGED <<read, free, replacer, status, run, written>>

replace_page ==
    /\ UNCHANGED <<srvvars, codec>>
    /\ status = "running"
    /\ next_id <= MaxId
    /\ LET old_id == current.id
           id == next_id
       IN  /\ disk' = write_page(disk, current)
           /\ next_id' = next_id + 1
           /\ current' = PageNew(id)
           /\ page_table' = [page_table EXCEPT ![old_id] = NoEntry, ![id] = Write]
    /\ ret' = Ret("replace_page", 0, "Ok", 0)
    /\ UNCHANGED <<read, free, replacer, status, run, written>>

\* new_page taking its id without advancing the allocator
new_page_SameId ==
    /\ UNCHANGED <<srvvars, codec>>
    /\ status = "running"
    /\ LET s == ChooseSlot IN
       IF s.i = NoSlot
       THEN /\ ret' = Ret("new_page", 0, "None", 0)
            /\ UNCHANGED <<page_table, read, free, next_id, replacer, disk>>
       ELSE /\ next_id <= MaxId
            /\ replacer.ts < MaxTs
            /\ LET page_id == next_id
                   page == pin(PageNew(page_id))
               IN  /\ replacer' = record_access(s.replacer, s.i)
                   /\ free' = s.free
                   /\ next_id' = next_id
                   /\ disk' = write_page(disk, page)
                   /\ page_table' = [page_table EXCEPT ![page_id] = s.i]
                   /\ read' = [read EXCEPT ![s.i] = page]
                   /\ ret' = Ret("new_page", 0, "page", s.i)
    /\ UNCHANGED <<current, status, run, written>>

new_page ==
    /\ UNCHANGED <<srvvars, codec>>
    /\ status = "running"
    /\ LET s == ChooseSlot IN
       IF s.i = NoSlot
       THEN /\ ret' = Ret("new_page", 0, "None", 0)
            /\ UNCHANGED <<page_table, read, free, next_id, replacer, disk>>
       ELSE /\ next_id <= MaxId
            /\ replacer.ts < MaxTs
            /\ LET page_id == next_id
                   page == pin(PageNew(page_id))
               IN  /\ replacer' = record_access(s.replacer, s.i)
                   /\ free' = s.free
                   /\ next_id' = next_id + 1
                   /\ disk' = write_page(disk, page)
                   /\ page_table' = [page_table EXCEPT ![page_id] = s.i]
                   /\ read' = [read EXCEPT ![s.i] = page]
                   /\ ret' = Ret("new_page", 0, "page", s.i)
    /\ UNCHANGED <<current, status, run, written>>

fetch_page(page_id) ==
    /\ UNCHANGED <<srvvars, codec>>
    /\ status = "running"
    /\ IF page_table[page_id] = Write
       THEN /\ ret' = Ret("fetch_page", page_id, "page", Write)
            /\ UNCHANGED <<page_table, read, free, replacer>>
       ELSE IF page_table[page_id] # NoEntry
       THEN LET i == page_table[page_id] IN
            /\ replacer.ts < MaxTs
            /\ replacer' = record_access(replacer, i)
            /\ IF read[i] = NoPage
               THEN /\ status' = "panicked"
                    /\ ret' = Ret("fetch_page", page_id, "panic", 0)
                    /\ UNCHANGED read
               ELSE /\ read' = [read EXCEPT ![i] = pin(@)]
                    /\ ret' = Ret("fetch_page", page_id, "page", i)
                    /\ UNCHANGED status
            /\ UNCHANGED <<page_table, free>>
       ELSE LET s == ChooseSlot IN
            IF s.i = NoSlot
            THEN /\ ret' = Ret("fetch_page", page_id, "None", 0)
                 /\ UNCHANGED <<page_table, read, free, replacer>>
            ELSE /\ s.evicted => replacer.ts < MaxTs
                 /\ free' = s.free
                 /\ replacer' = IF s.evicted THEN record_access(s.replacer, s.i)
                                ELSE s.replacer
                 /\ page_table' = IF read[s.i] # NoPage
                                  THEN [page_table EXCEPT ![page_id] = NoEntry]
                                  ELSE page_table
                 /\ read' = [read EXCEPT ![s.i] = pin(read_page(disk, page_id))]
                 /\ ret' = Ret("fetch_page", page_id, "page", s.i)
    /\ (page_table[page_id] = Write \/ page_table[page_id] = NoEntry) => UNCHANGED status
    /\ UNCHANGED <<current, next_id, disk, run, written>>

unpin_page(page_id) ==
    /\ UNCHANGED <<srvvars, codec>>
    /\ status = "running"
    /\ IF page_table[page_id] = NoEntry
       THEN /\ ret' = Ret("unpin_page", page_id, "unit", 0)
            /\ UNCHANGED <<read, replacer, status>>
       ELSE IF page_table[page_id] = Write
       THEN /\ ret' = Ret("unpin_page", page_id, "panic", 0)
            /\ status' = "panicked"
            /\ UNCHANGED <<read, replacer>>
       ELSE LET i == page_table[page_id] IN
            IF read[i] = NoPage
            THEN /\ ret' = Ret("unpin_page", page_id, "panic", 0)
                 /\ status' = "panicked"
                 /\ UNCHANGED <<read, replacer>>
            ELSE /\ read[i].pins > 0 - MaxUnderflow
                 /\ read' = [read EXCEPT ![i].pins = fetch_sub(@)]
                 /\ replacer' = IF read[i].pins = 1
                                THEN set_evictable(replacer, i, TRUE)
                                ELSE replacer
                 /\ ret' = Ret("unpin_page", page_id, "unit", 0)
                 /\ UNCHANGED status
    /\ UNCHANGED <<page_table, current, free, next_id, disk, run, written>>

\* get_current().await.write_entry(&e)
WriteEntry(e) ==
    /\ UNCHANGED <<srvvars, codec>>
    /\ status = "running"
    /\ current.len <= PAGE_SIZE + MaxOverrun
    /\ LET w == write_entry(current, e) IN
       /\ current' = w.page
       /\ ret' = Ret("write_entry", EntryLen(e), w.tag, w.val)
       /\ written' = IF w.tag = "Ok"
                     THEN written \cup {[run |-> run, page |-> current.id,
                                         offset |-> w.val, entry |-> e]}
                     ELSE written
    /\ UNCHANGED <<page_table, read, free, next_id, replacer, disk, status, run>>

\* graceful shutdown: flush_current() and process exit
flush_current ==
    /\ UNCHANGED <<srvvars, codec>>
    /\ status = "running"
    /\ disk' = write_page(disk, current)
    /\ status' = "exited"
    /\ ret' = Ret("flush_current", 0, "unit", 0)
    /\ UNCHANGED <<page_table, current, read, free, next_id, replacer, run, written>>

\* PageManager::new(disk) in the next process over the same file
new ==
    /\ UNCHANGED <<srvvars, codec>>
    /\ status # "running"
    /\ run < MaxRuns
    /\ page_table' = [id \in PageIds |-> IF id = 0 THEN Write ELSE NoEntry]
    /\ current' = PageNew(0)
    /\ read' = [i \in Slots |-> NoPage]
    /\ free' = FreeInit
    /\ next_id' = 1
    /\ replacer' = ReplacerNew
    /\ status' = "running"
    /\ run' = run + 1
    /\ ret' = Ret("new", 0, "unit", 0)
    /\ UNCHANGED <<disk, written>>

\* the ids a caller can hold: those the allocator has handed out
Allocated == 0 .. (next_id - 1)

\* a write within the scenario's budget of entries
PutEntry(e) == Cardinality(written) < MaxWrites /\ WriteEntry(e)

Next ==
    \/ replace_page
    \/ new_page
    \/ \E id \in Allocated : fetch_page(id)
    \/ \E id \in Allocated : unpin_page(id)
    \/ \E e \in Entries : PutEntry(e)

\* the same, with graceful shutdown and restart over the same file
NextRestart ==
    \/ replace_page
    \/ new_page
    \/ \E e \in Entries : PutEntry(e)
    \/ flush_current
    \/ new

Spec == Init /\ [][Next]_vars

\* the frame pool alone; a single rotation puts page 0 on disk, which gives
\* fetch_page an absent page to load
rotate_first == current.id = 0 /\ replace_page

NextPool ==
    \/ rotate_first
    \/ new_page
    \/ \E id \in Allocated : fetch_page(id)
    \/ \E id \in Allocated : unpin_page(id)

SpecPool == Init /\ [][NextPool]_vars

\* the frame pool with any number of rotations
NextTable ==
    \/ replace_page
    \/ new_page
    \/ \E id \in Allocated : fetch_page(id)
    \/ \E id \in Allocated : unpin_page(id)

SpecTable == Init /\ [][NextTable]_vars

\* appends with rotation, next to new_page taking ids from the same allocator
NextAppend ==
    \/ \E e \in Entries : WriteEntry(e)
    \/ replace_page
    \/ new_page

SpecAppend == Init /\ [][NextAppend]_vars

\* the append path alone: writes to the current page, rotation, fetches
NextPage ==
    \/ \E e \in Entries : WriteEntry(e)
    \/ replace_page
    \/ fetch_page(current.id)

SpecPage == Init /\ [][NextPage]_vars

\* get_current().read_entry(o): the handle's caller passes any offset
ReadEntry(o) ==
    /\ UNCHANGED <<srvvars, codec>>
    /\ status = "running"
    /\ LET e == read_entry(current, o) IN
       /\ ret' = Ret("read_entry", o, IF e = Panic THEN "panic" ELSE "Entry", 0)
       /\ status' = IF e = Panic THEN "panicked" ELSE status
    /\ UNCHANGED <<pmvars, run, written>>

Offsets == 0 .. (PAGE_SIZE + 1)

NextRead ==
    \/ \E e \in Entries : WriteEntry(e)
    \/ \E o \in Offsets : ReadEntry(o)

SpecRead == Init /\ [][NextRead]_vars

SpecRestart == Init /\ [][NextRestart]_vars

\* ---------------------------------------------------------------- server
\* signal::ctrl_c().await returns
SigCtrlC ==
    /\ status = "running" /\ sig = "wait"
    /\ sig' = "flush"
    /\ UNCHANGED <<pmvars, status, run, ret, written, conn, acked, flushes, codec>>

\* _m.flush_current().await
SigFlush ==
    /\ status = "running" /\ sig = "flush"
    /\ disk' = write_page(disk, current)
    /\ flushes' = flushes + 1
    /\ sig' = "exit"
    /\ UNCHANGED <<page_table, current, read, free, next_id, replacer,
                   status, run, ret, written, conn, acked, codec>>

\* std::process::exit(0)
SigExit ==
    /\ status = "running" /\ sig = "exit"
    /\ status' = "exited"
    /\ sig' = "done"
    /\ UNCHANGED <<pmvars, run, ret, written, conn, acked, flushes, codec>>

\* conn.read(): a PUT request arrives on connection c
ConnRead(c, e) ==
    /\ status = "running" /\ conn[c].pc = "read"
    /\ Cardinality(written) + Cardinality({d \in Conns : conn[d].pc = "exec"}) < MaxPuts
    /\ conn' = [conn EXCEPT ![c] = [pc |-> "exec", msg |-> e, res |-> NoRes]]
    /\ UNCHANGED <<pmvars, status, run, ret, written, sig, acked, flushes, codec>>

\* message.exec(): append under the write lock of the current page, with
\* rotation on NotEnoughSpace
ConnExec(c) ==
    /\ status = "running" /\ conn[c].pc = "exec"
    /\ LET e == conn[c].msg
           w == write_entry(current, e)
       IN  IF w.tag = "Ok"
           THEN /\ current' = w.page
                /\ written' = written \cup {[run |-> run, page |-> current.id,
                                             offset |-> w.val, entry |-> e]}
                /\ conn' = [conn EXCEPT ![c] = [pc |-> "write", msg |-> e, res |-> [page |-> current.id, offset |-> w.val]]]
                /\ ret' = Ret("write_entry", EntryLen(e), w.tag, w.val)
                /\ UNCHANGED <<page_table, next_id, disk>>
           ELSE LET id == next_id
                    w2 == write_entry(PageNew(id), e)
                IN  /\ next_id <= MaxId
                    /\ disk' = write_page(disk, w.page)
                    /\ next_id' = next_id + 1
                    /\ page_table' = [page_table EXCEPT ![current.id] = NoEntry, ![id] = Write]
                    /\ current' = w2.page
                    /\ written' = written \cup {[run |-> run, page |-> id,
                                                 offset |-> w2.val, entry |-> e]}
                    /\ conn' = [conn EXCEPT ![c] = [pc |-> "write", msg |-> e, res |-> [page |-> id, offset |-> w2.val]]]
                    /\ ret' = Ret("write_entry", EntryLen(e), w2.tag, w2.val)
    /\ UNCHANGED <<read, free, replacer, status, run, sig, acked, flushes, codec>>

\* conn.write(res): the OK reaches the client
ConnWrite(c) ==
    /\ status = "running" /\ conn[c].pc = "write"
    /\ acked' = acked \cup {[page |-> conn[c].res.page, offset |-> conn[c].res.offset,
                             entry |-> conn[c].msg]}
    /\ conn' = [conn EXCEPT ![c].pc = "read"]
    /\ UNCHANGED <<pmvars, status, run, ret, written, sig, flushes, codec>>

NextServer ==
    \/ SigCtrlC
    \/ SigFlush
    \/ SigExit
    \/ \E c \in Conns, e \in Entries : ConnRead(c, e)
    \/ \E c \in Conns : ConnExec(c)
    \/ \E c \in Conns : ConnWrite(c)

SpecServer == Init /\ [][NextServer]_vars

\* ------------------------------------------------------------ properties
\* the entries written so far, in this process, to page p
WrittenOn(p) == {w \in written : w.run = run /\ w.page = p}

RECURSIVE SumLen(_)
SumLen(S) == IF S = {} THEN 0
             ELSE LET w == CHOOSE x \in S : TRUE
                  IN  EntryLen(w.entry) + SumLen(S \ {w})

\* the page a returned read guard gives access to
Handle(r) == IF r.val = Write THEN current ELSE read[r.val]

\* this step is new_page or the absent-page path of fetch_page
AllocStep == \/ ret'.op = "new_page"
             \/ ret'.op = "fetch_page" /\ page_table[ret'.arg] = NoEntry

\* this step puts a new occupant into the occupied frame i
Replaces(i) == AllocStep /\ ret'.tag = "page" /\ ret'.val = i /\ read[i] # NoPage

\* C1: the occupant of a read frame is replaced (eviction path of fetch_page
\* or new_page) only while it has pins == 0.
C1_ReplacedOnlyUnpinned ==
    [][\A i \in Slots : Replaces(i) => read[i].pins = 0]_vars

\* C2: page_table and the resident pages agree one-to-one: a Write entry is
\* the current page, a Read(i) entry is the occupant of slot i, every
\* occupant of a frame is in page_table, and no id is in two frames.
C2_TableMatchesFrames ==
    /\ \A id \in PageIds :
          /\ page_table[id] = Write => current.id = id
          /\ page_table[id] \in Slots => read[page_table[id]].id = id
    /\ \A i \in Slots : read[i] # NoPage => page_table[read[i].id] = i
    /\ \A i, j \in Slots : (i # j /\ read[i] # NoPage /\ read[j] # NoPage)
                              => read[i].id # read[j].id

\* C3: once an entry is written at (p, o), every later fetch_page(p)
\* succeeds and read_entry(o) on the returned page is that entry, whether
\* p is still current or has been rotated to disk.
C3_WrittenEntryFound ==
    \A w \in written :
        (w.run = run /\ ret.op = "fetch_page" /\ ret.arg = w.page)
            => /\ ret.tag = "page"
               /\ read_entry(Handle(ret), w.offset) = w.entry

\* C4: a page image on disk that contains entries is never overwritten with
\* different contents, by rotation, new_page or either after a restart.
C4_DiskImmortal ==
    [][\A id \in PageIds : ScanLen(disk[id], 0) > 0 => disk'[id] = disk[id]]_vars

\* C5: the signal task flushes the current page exactly once and exits, and
\* every PUT answered before the exit is in a page image on disk.
C5_AckedPutsFlushed ==
    status = "exited" =>
        /\ flushes = 1
        /\ \A a \in acked : read_entry(read_page(disk, a.page), a.offset) = a.entry

\* C6: fetch_page of an absent page and new_page return None exactly when
\* the free stack is empty and no slot is evictable; then every frame holds
\* a page with pins > 0; otherwise they return a page handle.
C6_NoneOnlyWhenAllPinned ==
    [][AllocStep =>
          LET full == free = << >> /\ \A i \in Slots : ~replacer.evictable[i]
          IN  /\ ret'.tag = "None" <=> full
              /\ full => \A i \in Slots : read[i] # NoPage /\ read[i].pins # 0
              /\ ~full => ret'.tag = "page"]_vars

C6_Witness ==
    /\ ret.op = "fetch_page" /\ ret.tag = "None"
    /\ \A i \in Slots : read[i] # NoPage /\ read[i].pins # 0

\* C7: unpin_page(id) of a page resident in a read frame with pins > 0
\* decrements its pins, and on 1 -> 0 its slot becomes evictable.
C7_UnpinReleases ==
    [][\A i \in Slots :
          (ret'.op = "unpin_page" /\ read[i].id = ret'.arg /\ read[i].pins > 0)
              => /\ read'[i].pins = read[i].pins - 1
                 /\ read[i].pins = 1 => replacer'.evictable[i]]_vars

\* C8: 0 <= len <= PAGE_SIZE, and len is the sum of the sizes of the
\* entries successfully written to the page.
C8_LenWithinPage ==
    /\ 0 <= current.len /\ current.len <= PAGE_SIZE
    /\ current.len = SumLen(WrittenOn(current.id))

\* C9: write_entry(e) fails exactly when len + size(e) > PAGE_SIZE and then
\* leaves the page unchanged; otherwise it returns the old len and advances
\* len by size(e).
C9_WriteEntryContract ==
    [][ret'.op = "write_entry" =>
          IF current.len + ret'.arg > PAGE_SIZE
          THEN ret'.tag = "NotEnoughSpace" /\ current' = current
          ELSE /\ ret'.tag = "Ok" /\ ret'.val = current.len
               /\ current'.len = current.len + ret'.arg]_vars

\* C10: the entries written to the current page have offsets 0, size(e1),
\* size(e1) + size(e2), ..., and after fetch_page(current id) read_entry at
\* each offset returns the entry written there.
C10_RoundTrip ==
    /\ \A w \in WrittenOn(current.id) :
          w.offset = SumLen({v \in WrittenOn(current.id) : v.offset < w.offset})
    /\ (ret.op = "fetch_page" /\ ret.arg = current.id)
          => /\ ret.tag = "page" /\ ret.val = Write
             /\ \A w \in WrittenOn(current.id) :
                   read_entry(Handle(ret), w.offset) = w.entry

C10_Witness ==
    /\ ret.op = "fetch_page" /\ ret.arg = current.id
    /\ \E v, w \in WrittenOn(current.id) :
          v.offset = 0 /\ w.offset = EntryLen(v.entry) /\ v.entry # w.entry

\* the state test_replacer is in before its last new_page, for READ_SIZE
\* frames: pages 1 .. READ_SIZE allocated by new_page into slots
\* 0 .. READ_SIZE-1 and unpinned once each (the fetch_page futures of the
\* test are dropped without being awaited, so they record nothing)
TestReplacerState ==
    /\ free = << >> /\ current.id = 0 /\ next_id = READ_SIZE + 1
    /\ \A i \in Slots : /\ read[i].id = i + 1 /\ read[i].pins = 0
                        /\ replacer.evictable[i] /\ replacer.history[i] = <<i>>

\* C11: in the shipped scenario the next allocation succeeds with the next
\* id, evicts the last slot (the least accessed page) and leaves the other
\* frames as they are: ids [1, 2, 4] for READ_SIZE = 3.
C11_TestReplacerEvictsLast ==
    [][(TestReplacerState /\ ret'.op = "new_page") =>
          /\ ret'.tag = "page" /\ ret'.val = READ_SIZE - 1
          /\ read'[READ_SIZE - 1].id = READ_SIZE + 1
          /\ \A i \in Slots \ {READ_SIZE - 1} : read'[i] = read[i]]_vars

FreeSet == {free[k] : k \in 1..Len(free)}
Occupied == {i \in Slots : read[i] # NoPage}

\* C12: the free stack and the occupied slots partition the frame array.
C12_FreeOccupiedPartition ==
    /\ FreeSet \cap Occupied = {}
    /\ Cardinality(FreeSet) = Len(free)
    /\ Len(free) + Cardinality(Occupied) = READ_SIZE

C12_Witness ==
    /\ ret.op = "fetch_page" /\ ret.tag = "page" /\ ret.val \in Slots
    /\ Occupied # {} /\ FreeSet # {}

OneWrite == \A id \in PageIds : page_table[id] = Write <=> id = current.id

\* C13: page_table has exactly one Write entry, the id of the current page;
\* a rotation removes the old current id and touches no read frame, and a
\* later fetch_page of that id loads the page from disk.
C13_OneWriteEntry ==
    [][/\ OneWrite /\ OneWrite'
       /\ ret'.op = "replace_page" =>
             /\ page_table'[current.id] = NoEntry
             /\ read' = read
       /\ (ret'.op = "fetch_page" /\ ret'.tag = "page" /\ page_table[ret'.arg] = NoEntry)
             => read'[ret'.val] = pin(read_page(disk, ret'.arg))]_vars

C13_Witness ==
    /\ ret.op = "fetch_page" /\ ret.tag = "page" /\ ret.val \in Slots
    /\ ret.arg < current.id /\ read[ret.val].id = ret.arg
    /\ current.id > 1

\* C15: ids are handed out densely: every allocation, by new_page or by
\* replace_page, returns next_id and advances it by one, nothing else moves
\* it, and every existing page has a smaller id; a fresh manager holds page
\* 0 only.
C15_IdsDense ==
    [][/\ (ret'.op = "new_page" /\ ret'.tag = "page")
             => read'[ret'.val].id = next_id /\ next_id' = next_id + 1
       /\ ret'.op = "replace_page"
             => current'.id = next_id /\ next_id' = next_id + 1
       /\ ~(ret'.op = "replace_page" \/ (ret'.op = "new_page" /\ ret'.tag = "page"))
             => next_id' = next_id
       /\ current.id < next_id /\ \A i \in Slots : read[i].id < next_id
       /\ current'.id < next_id' /\ \A i \in Slots : read'[i].id < next_id'
       /\ next_id = 1 => current.id = 0 /\ Occupied = {}]_vars

C15_Witness ==
    /\ ret.op = "new_page" /\ ret.tag = "page"
    /\ read[ret.val].id = MaxId /\ current.id > 0

\* C16: unpin_page of the current (Write) page returns normally and changes
\* nothing.
C16_UnpinCurrentNoOp ==
    [][(ret'.op = "unpin_page" /\ page_table[ret'.arg] = Write) =>
          /\ ret'.tag = "unit" /\ status' = status
          /\ UNCHANGED <<page_table, current, read, free, replacer>>]_vars

\* C17: the pin count of a page never wraps below 0.
C17_PinsNeverWrap == \A i \in Slots : read[i].pins >= 0

\* this step is the rotation that follows a NotEnoughSpace
RotateOnFill == /\ ret.op = "write_entry" /\ ret.tag = "NotEnoughSpace"
                /\ ret'.op = "replace_page"

\* what a rotation does besides choosing the new id
RotationEffect ==
    /\ disk'[current.id] = current.data
    /\ \A id \in PageIds \ {current.id} : disk'[id] = disk[id]
    /\ current'.len = 0
    /\ \A e \in Entries : /\ write_entry(current', e).tag = "Ok"
                          /\ write_entry(current', e).val = 0

\* C14 as stated: a rotation on fill writes the image of prev_id to disk,
\* the new current page has id prev_id + 1 and len 0, and the retried entry
\* lands at offset 0.
C14_RotationNextPage ==
    [][RotateOnFill => RotationEffect /\ current'.id = current.id + 1]_vars

\* C14 amended: the new current page has the allocator's next id (next_id
\* before the call), which is above prev_id; the rest is as stated.
C14_RotationNextId ==
    [][RotateOnFill =>
          /\ RotationEffect
          /\ current'.id = next_id /\ next_id' = next_id + 1
          /\ current'.id > current.id]_vars

C14_Witness ==
    /\ ret.op = "write_entry" /\ ret.tag = "Ok" /\ ret.val = 0
    /\ current.id = 2 /\ page_table[1] \in Slots
    /\ ScanLen(disk[0], 0) = SumLen(WrittenOn(0))
    /\ \E w \in WrittenOn(2) : SumLen(WrittenOn(0)) + EntryLen(w.entry) > PAGE_SIZE
\* C18: read_entry never panics: an offset beyond the page, or a header
\* whose declared lengths run past the end of the page, is an error outcome.
C18_ReadEntryNoPanic == ret.op = "read_entry" => ret.tag # "panic"

SpecCodec == Init /\ [][NextCodec]_vars

\* C19: reading back the bytes that write produced for an entry built with
\* Entry::new returns an entry with the same delete flag, time, key and
\* value, and the bytes are 25 + len(key) + len(value) long.
C19_CodecRoundTrip ==
    (codec.stage = "read" /\ ~codec.damaged) =>
        /\ codec.got.tag = "Some"
        /\ codec.got.entry.delete = codec.entry.delete
        /\ codec.got.entry.time = codec.entry.time
        /\ codec.got.entry.key = codec.entry.key
        /\ codec.got.entry.value = codec.entry.value
        /\ Len(codec.file) = HEADER + Len(codec.entry.key) + Len(codec.entry.value)

\* C20: decoding a record with a tag byte other than 0 and 1, or with
\* declared lengths past the bytes remaining, never panics.
C20_DecodeNoPanic == codec.stage = "read" => codec.got.tag # "panic"

====
